---------------------------- MODULE Spec2Model ----------------------------
(***************************************************************************)
(* A model of serializer.h: the serializer (an append-only byte vector),  *)
(* the deserializer (a copied byte vector and a read position) and the    *)
(* bytes_to_hex helper.                                                    *)
(*                                                                         *)
(* Objects are modelled by their object representation: a fixed-width     *)
(* value of width W is the sequence of its W bytes as they lie in memory, *)
(* because the code moves values with memcpy / insert(ptr, ptr + size).   *)
(* Where the code does arithmetic on a value (the uint32_t length        *)
(* prefix), ValueOf gives the number those bytes stand for under the      *)
(* host's byte order, which is chosen nondeterministically (endian).      *)
(* size_t is taken to be 64 bits wide, so pos + size cannot wrap for a    *)
(* 32-bit size.                                                            *)
(***************************************************************************)
EXTENDS Integers, Sequences, FiniteSets, TLC

(***************************************************************************)
(* Bounds of the model.                                                    *)
(***************************************************************************)
\* longest byte sequence handed to a deserializer built from raw bytes
MaxBuf == 8
\* longest byte sequence rendered by bytes_to_hex
MaxHexLen == 3
\* longest string written by the serializer
MaxStr == 2
\* longest vector written by the serializer
MaxElems == 3
\* number of values written before a matched deserializer is built
MaxWrites == 2
\* longest serializer content onto which a further value is appended
MaxPrior == 5

\* sizeof(T) for T = std::vector<E> (three pointers on a 64-bit build)
SizeofVector == 24

\* sizeof(T) of the arithmetic types the claims speak of
Widths == {1, 2, 4, 8}

\* the byte orders a host may have
Endians == {"little", "big"}

\* (Every byte of a buffer of the model is below 128, so that the number a
\* 4-byte prefix stands for stays within the integers TLC computes with.)
\* byte values of the raw buffers: a length prefix made of them is 0 (an
\* empty payload), 2 (a short payload) or far beyond any buffer of the model
BufVals == {0, 2}

\* byte values rendered by bytes_to_hex
HexBytes == {0, 5, 10, 16, 42, 160, 255}

\* numbers whose object representations are written as fixed-width values
SampleNums == {1, 258}

\* all sequences over S of length at most n
BoundedSeq(S, n) == UNION {[1..k -> S] : k \in 0..n}

Min(a, b) == IF a < b THEN a ELSE b

(***************************************************************************)
(* Native object representation.                                           *)
(***************************************************************************)
RECURSIVE LEBytes(_, _)
\* the W low-order bytes of n, least significant first
LEBytes(n, W) == IF W = 0 THEN <<>> ELSE <<n % 256>> \o LEBytes(n \div 256, W - 1)

Reverse(s) == [i \in 1..Len(s) |-> s[Len(s) + 1 - i]]

\* the bytes of an unsigned W-byte object holding n, in the host's layout
ObjRep(n, W, e) == IF e = "little" THEN LEBytes(n, W) ELSE Reverse(LEBytes(n, W))

RECURSIVE LEValue(_)
LEValue(b) == IF b = <<>> THEN 0 ELSE b[1] + 256 * LEValue(Tail(b))

\* the number an unsigned object with bytes b holds, in the host's layout
ValueOf(b, e) == IF e = "little" THEN LEValue(b) ELSE LEValue(Reverse(b))

(***************************************************************************)
(* bytes_to_hex: a stringstream in std::hex with fill '0'; every byte is  *)
(* inserted as an int under setw(2).  A std::string is modelled as the    *)
(* sequence of its characters.                                             *)
(***************************************************************************)
HexDigit == <<"0", "1", "2", "3", "4", "5", "6", "7",
              "8", "9", "a", "b", "c", "d", "e", "f">>

RECURSIVE FormatHex(_)
\* operator<<(int) under std::hex: the digits of n, no leading zeros
FormatHex(n) ==
    IF n < 16 THEN <<HexDigit[n + 1]>>
    ELSE FormatHex(n \div 16) \o <<HexDigit[(n % 16) + 1]>>

RECURSIVE PadLeft(_, _, _)
\* the field of width w: fill characters are put in front (right-adjusted)
PadLeft(s, w, fill) == IF Len(s) >= w THEN s ELSE PadLeft(<<fill>> \o s, w, fill)

\* a slip: setw dropped, so a byte below 16 gets one digit
HexOfByteNoPad(b) == FormatHex(b)

\* one iteration of the loop: ss << std::setw(2) << static_cast<int>(in[i])
HexOfByte(b) == PadLeft(FormatHex(b), 2, "0")

RECURSIVE bytes_to_hex(_, _)
bytes_to_hex(in, count) ==
    IF count = 0 THEN <<>>
    ELSE bytes_to_hex(in, count - 1) \o HexOfByte(in[count])

(***************************************************************************)
(* serializer: the three operator<< overloads, as functions of the vector *)
(* `data` they append to.                                                  *)
(***************************************************************************)
\* operator<<(const T&), T arithmetic: v is the object representation
write_fixed(d, v) == d \o v

\* a slip: the length prefix is written after the characters
write_string_suffix(d, s, e) == write_fixed(d \o s, ObjRep(Len(s), 4, e))

\* operator<<(const std::string&): the length as a uint32_t, then the characters
write_string(d, s, e) ==
    LET length == Len(s)
    IN  write_fixed(d, ObjRep(length, 4, e)) \o SubSeq(s, 1, length)

RECURSIVE write_elements(_, _)
\* the range-for of operator<<(const std::vector<T>&)
write_elements(d, value) ==
    IF value = <<>> THEN d
    ELSE write_elements(write_fixed(d, Head(value)), Tail(value))

\* operator<<(const std::vector<T>&): the size as a uint32_t, then each element
write_sequence(d, value, e) ==
    LET size == Len(value)
    IN  write_elements(write_fixed(d, ObjRep(size, 4, e)), value)

(***************************************************************************)
(* deserializer: the operator>> overloads, as functions of the fields     *)
(* (buffer, pos) and of the target t the caller passes by reference.      *)
(* Each gives the outcome of the call: how it ended (status), which check *)
(* threw (fail), the position and the target it leaves behind.            *)
(*   "ok"        the call returned                                         *)
(*   "overflow"  the call threw std::runtime_error("Buffer overflow!")     *)
(*   "abort"     the call ran into undefined behaviour and the build       *)
(*               stopped the program (a checked operator[])                *)
(***************************************************************************)
Done(p, v) == [status |-> "ok", fail |-> "none", pos |-> p, val |-> v]

Thrown(p, t, why) == [status |-> "overflow", fail |-> why, pos |-> p, val |-> t]

Aborted(p, t) == [status |-> "abort", fail |-> "none", pos |-> p, val |-> t]

\* a slip: >= for >, so a value ending exactly at the end of the buffer is refused
read_fixed_ge(buf, p, W, t) ==
    IF p + W >= Len(buf) THEN Thrown(p, t, "fixed")
    ELSE Done(p + W, SubSeq(buf, p + 1, p + W))

\* a slip: pos += sizeof(T) left out
read_fixed_stay(buf, p, W, t) ==
    IF p + W > Len(buf) THEN Thrown(p, t, "fixed")
    ELSE Done(p, SubSeq(buf, p + 1, p + W))

\* operator>>(T&) with sizeof(T) = W
read_fixed(buf, p, W, t) ==
    IF p + W > Len(buf) THEN Thrown(p, t, "fixed")
    ELSE Done(p + W, SubSeq(buf, p + 1, p + W))

\* data.resize(n): the first n characters, padded with value-initialised ones
Resize(t, n) == [i \in 1..n |-> IF i <= Len(t) THEN t[i] ELSE 0]

\* a slip: data.resize(size) done before the bounds check (the model caps the
\* size at MaxBuf, enough to tell the resized target from the old one)
read_string_resize_first(buf, p, t, e) ==
    LET pre  == read_fixed(buf, p, 4, <<>>)
        size == ValueOf(pre.val, e)
    IN  IF pre.status # "ok" THEN {Thrown(pre.pos, t, "prefix")}
        ELSE IF pre.pos + size > Len(buf)
             THEN {Thrown(pre.pos, Resize(t, Min(size, MaxBuf)), "payload")}
        ELSE {Done(pre.pos + size, SubSeq(buf, pre.pos + 1, pre.pos + size))}

\* a slip: pos advanced past the payload before the bounds check
read_string_advance_first(buf, p, t, e) ==
    LET pre  == read_fixed(buf, p, 4, <<>>)
        size == ValueOf(pre.val, e)
    IN  IF pre.status # "ok" THEN {Thrown(pre.pos, t, "prefix")}
        ELSE IF pre.pos + size > Len(buf) THEN {Thrown(pre.pos + size, t, "payload")}
        ELSE {Done(pre.pos + size, SubSeq(buf, pre.pos + 1, pre.pos + size))}

\* operator>>(std::string&): the set of outcomes the build can produce.
\* `*this >> size` has already advanced pos when the payload check throws.
\* &buffer[pos] with pos = buffer.size() indexes the vector out of range
\* (undefined; a checked operator[] stops the program).
read_string(buf, p, t, e) ==
    LET pre  == read_fixed(buf, p, 4, <<>>)
        size == ValueOf(pre.val, e)
    IN  IF pre.status # "ok" THEN {Thrown(pre.pos, t, "prefix")}
        ELSE IF pre.pos + size > Len(buf) THEN {Thrown(pre.pos, t, "payload")}
        ELSE IF pre.pos >= Len(buf)
             THEN {Done(pre.pos + size, <<>>), Aborted(pre.pos, <<>>)}
        ELSE {Done(pre.pos + size, SubSeq(buf, pre.pos + 1, pre.pos + size))}

\* operator>>(std::vector<uint8_t>&).  A vector is modelled as the sequence
\* of its elements, each element by its bytes.  With size = 0, &data[0]
\* indexes an empty vector (undefined; a checked operator[] stops the program).
read_bytes(buf, p, t, e) ==
    LET pre  == read_fixed(buf, p, 4, <<>>)
        size == ValueOf(pre.val, e)
    IN  IF pre.status # "ok" THEN {Thrown(pre.pos, t, "prefix")}
        ELSE IF pre.pos + size > Len(buf) THEN {Thrown(pre.pos, t, "payload")}
        ELSE IF size = 0
             THEN {Done(pre.pos, <<>>), Aborted(pre.pos, <<>>)}
        ELSE {Done(pre.pos + size, [i \in 1..size |-> <<buf[pre.pos + i]>>])}

\* what a std::vector<E> may look like after its three pointers were
\* overwritten with bytes of the buffer
GarbageVecs(W) == {<<>>, <<[i \in 1..W |-> 0]>>}

\* operator>>(T&) instantiated with T = std::vector<E>, sizeof(E) = W > 1:
\* no overload takes such a vector, so the generic template copies
\* sizeof(std::vector<E>) bytes of the buffer over the vector object itself.
read_vector_object(buf, p, W, t) ==
    LET pre == read_fixed(buf, p, SizeofVector, <<>>)
    IN  IF pre.status # "ok" THEN {Thrown(pre.pos, t, "fixed")}
        ELSE {Aborted(pre.pos, t)} \cup {Done(pre.pos, g) : g \in GarbageVecs(W)}

\* d >> v for a std::vector<E> v with sizeof(E) = W: overload resolution
\* (W = 1 stands for E = uint8_t, the one element type with an overload)
read_sequence(buf, p, W, t, e) ==
    IF W = 1 THEN read_bytes(buf, p, t, e) ELSE read_vector_object(buf, p, W, t)

\* a slip: only the bytes from pos on are rendered
deserializer_str_rest(buf, p) ==
    bytes_to_hex(SubSeq(buf, p + 1, Len(buf)), Len(buf) - p)

\* deserializer::str()
deserializer_str(buf, p) == bytes_to_hex(buf, Len(buf))

\* deserializer::get_pos()
get_pos(p) == p

(***************************************************************************)
(* State.                                                                  *)
(***************************************************************************)
VARIABLES
    endian,     \* the host's byte order
    data,       \* serializer::data
    dec,        \* the deserializer: "none" (not built), "live", "crashed"
    buffer,     \* deserializer::buffer
    pos,        \* deserializer::pos
    tgt,        \* the caller's variable the last read was given (a new one per read)
    log,        \* caller's record: the values written to the serializer, in order
    lastW,      \* caller's record: the last serializer call, and data before it if a write
    source,     \* caller's record: the bytes handed to the deserializer's constructor
    srcLog,     \* caller's record: log at the time the deserializer was built
    last,       \* caller's record: the last deserializer call and how it ended
    rd,         \* caller's record: reads issued, counted up to Len(srcLog) + 1
    aligned,    \* caller's record: every read so far had the type of the value written
    failed,     \* caller's record: some read has thrown
    hexIn,      \* the bytes handed to bytes_to_hex
    hexOut,     \* the string the last rendering returned
    hexDone,    \* whether a rendering has been made
    hexPos      \* caller's record: deserializer::pos when str() was called

encVars == <<data, log, lastW>>
decVars == <<dec, buffer, pos, source, srcLog>>
readVars == <<last, rd, aligned, failed>>
hexVars == <<hexIn, hexOut, hexDone, hexPos>>
vars == <<endian, encVars, decVars, tgt, readVars, hexVars>>

\* a slip: the member declared as a reference to the vector the constructor
\* was given, so that the deserializer reads the serializer's own data
buffer_by_reference(own, given) == given

\* std::vector<uint8_t> buffer: the member is a vector of its own, which the
\* constructor's buffer(buf) fills with a copy
buffer_member(own, given) == own

\* the bytes the deserializer reads: its member `buffer`
Buf == buffer_member(buffer, data)

\* the values of the caller's variables before anything is read into them
FreshFixed(W) == [i \in 1..W |-> 170]
FreshStr == <<63, 63, 63>>
FreshVec(W) == <<[i \in 1..W |-> 170]>>

NoCall == [op |-> "none", w |-> 0, status |-> "none", fail |-> "none",
           pos0 |-> 0, tgt0 |-> <<>>, failedBefore |-> FALSE]

NoWrite == [op |-> "none", w |-> 0, before |-> <<>>, arg |-> <<>>]

\* serializer::serializer(capacity): an empty vector (reserve changes no content);
\* no deserializer yet
InitRest ==
    /\ endian \in Endians
    /\ data = <<>>
    /\ log = <<>>
    /\ lastW = NoWrite
    /\ dec = "none"
    /\ buffer = <<>>
    /\ pos = 0
    /\ source = <<>>
    /\ srcLog = <<>>
    /\ tgt = <<>>
    /\ last = NoCall
    /\ rd = 0
    /\ aligned = TRUE
    /\ failed = FALSE
    /\ hexOut = <<>>
    /\ hexDone = FALSE
    /\ hexPos = 0

InitBase == InitRest /\ hexIn = <<>>

\* the same, with the bytes a caller of bytes_to_hex holds
InitHex == InitRest /\ hexIn \in BoundedSeq(HexBytes, MaxHexLen)

(***************************************************************************)
(* The inputs the callers of the model draw from.                          *)
(***************************************************************************)
\* object representations of the sample numbers as W-byte values
FixedVals(W, e) == {ObjRep(n, W, e) : n \in SampleNums}

\* the strings written: "", "a", "ab", "aba", ... up to MaxStr characters
Strings == {[i \in 1..k |-> IF i % 2 = 1 THEN 97 ELSE 98] : k \in 0..MaxStr}

\* the vectors of W-byte elements written: <<>>, <<1>>, <<1, 258>>,
\* <<1, 258, 1>>, ... up to MaxElems elements
Vectors(W, e) ==
    {[i \in 1..k |-> ObjRep(IF i % 2 = 1 THEN 1 ELSE 258, W, e)] : k \in 0..MaxElems}

(***************************************************************************)
(* serializer calls.                                                       *)
(***************************************************************************)
\* s << value, value of an arithmetic type
WriteFixed(v) ==
    /\ data' = write_fixed(data, v)
    /\ log' = Append(log, [kind |-> "fixed", w |-> Len(v), val |-> v])
    /\ lastW' = [op |-> "fixed", w |-> Len(v), before |-> data, arg |-> v]
    /\ UNCHANGED <<endian, decVars, tgt, readVars, hexVars>>

\* s << value, value a std::string
WriteString(str) ==
    /\ data' = write_string(data, str, endian)
    /\ log' = Append(log, [kind |-> "string", w |-> 0, val |-> str])
    /\ lastW' = [op |-> "string", w |-> 1, before |-> data, arg |-> str]
    /\ UNCHANGED <<endian, decVars, tgt, readVars, hexVars>>

\* s << value, value a std::vector<E> with sizeof(E) = W
WriteSequence(W, value) ==
    /\ data' = write_sequence(data, value, endian)
    /\ log' = Append(log, [kind |-> "seq", w |-> W, val |-> value])
    /\ lastW' = [op |-> "seq", w |-> W, before |-> data, arg |-> value]
    /\ UNCHANGED <<endian, decVars, tgt, readVars, hexVars>>

\* s.clear()
Clear ==
    /\ data' = <<>>
    /\ log' = <<>>
    /\ lastW' = [op |-> "clear", w |-> 0, before |-> <<>>, arg |-> <<>>]
    /\ UNCHANGED <<endian, decVars, tgt, readVars, hexVars>>

\* s.get_data()[i] = b: a store through the reference get_data returns
GetDataStore(i, b) ==
    /\ i \in 1..Len(data)
    /\ data' = [data EXCEPT ![i] = b]
    /\ log' = <<[kind |-> "raw", w |-> 0, val |-> data']>>
    /\ lastW' = [op |-> "store", w |-> 0, before |-> <<>>, arg |-> <<b>>]
    /\ UNCHANGED <<endian, decVars, tgt, readVars, hexVars>>

(***************************************************************************)
(* deserializer calls.                                                     *)
(***************************************************************************)
\* deserializer::deserializer(buf): buffer(buf), pos(0)
deserializer_ctor(buf) == [buffer |-> buf, pos |-> 0]

\* deserializer d(s.get_data())
Construct ==
    /\ dec = "none"
    /\ LET d == deserializer_ctor(data)
       IN  buffer' = d.buffer /\ pos' = d.pos
    /\ dec' = "live"
    /\ source' = data
    /\ srcLog' = log
    /\ UNCHANGED <<endian, encVars, tgt, readVars, hexVars>>

\* deserializer d(bytes), bytes from anywhere
ConstructFrom(bytes) ==
    /\ dec = "none"
    /\ LET d == deserializer_ctor(bytes)
       IN  buffer' = d.buffer /\ pos' = d.pos
    /\ dec' = "live"
    /\ source' = bytes
    /\ srcLog' = <<>>
    /\ aligned' = FALSE
    /\ UNCHANGED <<endian, encVars, tgt, last, rd, failed, hexVars>>

\* the caller's bookkeeping of a call of kind `kind` that ended as r
Note(kind, W, r, t0) ==
    /\ last' = [op |-> kind, w |-> W, status |-> r.status, fail |-> r.fail,
                pos0 |-> pos, tgt0 |-> t0, failedBefore |-> failed]
    /\ failed' = (failed \/ r.status = "overflow")
    /\ rd' = IF rd <= Len(srcLog) THEN rd + 1 ELSE rd
    /\ aligned' = (aligned /\ (rd < Len(srcLog) =>
                       /\ srcLog[rd + 1].kind = kind
                       /\ srcLog[rd + 1].w = W))
    /\ dec' = IF r.status = "abort" THEN "crashed" ELSE dec

\* d >> x, x of an arithmetic type with sizeof = W
ReadFixed(W) ==
    /\ dec = "live"
    /\ LET r == read_fixed(Buf, pos, W, FreshFixed(W))
       IN  /\ pos' = r.pos
           /\ tgt' = r.val
           /\ Note("fixed", W, r, FreshFixed(W))
    /\ UNCHANGED <<endian, encVars, buffer, source, srcLog, hexVars>>

\* d >> x, x a std::string
ReadString ==
    /\ dec = "live"
    /\ \E r \in read_string(Buf, pos, FreshStr, endian) :
           /\ pos' = r.pos
           /\ tgt' = r.val
           /\ Note("string", 0, r, FreshStr)
    /\ UNCHANGED <<endian, encVars, buffer, source, srcLog, hexVars>>

\* d >> x, x a std::vector<E> with sizeof(E) = W
ReadSequence(W) ==
    /\ dec = "live"
    /\ \E r \in read_sequence(Buf, pos, W, FreshVec(W), endian) :
           /\ pos' = r.pos
           /\ tgt' = r.val
           /\ Note("seq", W, r, FreshVec(W))
    /\ UNCHANGED <<endian, encVars, buffer, source, srcLog, hexVars>>

\* d.str()
Str ==
    /\ dec = "live"
    /\ hexIn' = Buf
    /\ hexOut' = deserializer_str(Buf, pos)
    /\ hexDone' = TRUE
    /\ hexPos' = get_pos(pos)
    /\ UNCHANGED <<endian, encVars, decVars, tgt, readVars>>

\* bytes_to_hex(in, count) on the bytes drawn at the start
Render ==
    /\ ~hexDone
    /\ hexOut' = bytes_to_hex(hexIn, Len(hexIn))
    /\ hexDone' = TRUE
    /\ UNCHANGED <<endian, encVars, decVars, tgt, readVars, hexIn, hexPos>>

(***************************************************************************)
(* Specifications.                                                         *)
(***************************************************************************)
\* a deserializer over arbitrary bytes, read in any order
NextDec ==
    \/ \E b \in BoundedSeq(BufVals, MaxBuf) : ConstructFrom(b)
    \/ \E W \in Widths : ReadFixed(W)
    \/ ReadString
    \/ \E W \in Widths : ReadSequence(W)

SpecDec == InitBase /\ [][NextDec]_vars

\* bytes_to_hex on arbitrary bytes
NextHex == Render

SpecHex == InitHex /\ [][NextHex]_vars

\* a serializer written to and cleared; a value is appended while the content
\* is at most MaxPrior bytes long
NextEnc ==
    \/ \E W \in Widths : \E v \in FixedVals(W, endian) :
           Len(data) <= MaxPrior /\ WriteFixed(v)
    \/ \E str \in Strings : Len(data) <= MaxPrior /\ WriteString(str)
    \/ \E W \in Widths : \E value \in Vectors(W, endian) :
           Len(data) <= MaxPrior /\ WriteSequence(W, value)
    \/ data # <<>> /\ Clear

SpecEnc == InitBase /\ [][NextEnc]_vars

\* the next read mirrors the next value written, or every value was read
Mirrors(kind, W) ==
    rd < Len(srcLog) => (srcLog[rd + 1].kind = kind /\ srcLog[rd + 1].w = W)

\* the matched pair: up to MaxWrites values are written, a deserializer is
\* built from the serializer's data, and the values are read in the order and
\* with the types they were written with; then anything is read
NextRT ==
    \/ \E W \in Widths : \E v \in FixedVals(W, endian) :
           dec = "none" /\ Len(log) < MaxWrites /\ WriteFixed(v)
    \/ \E str \in Strings :
           dec = "none" /\ Len(log) < MaxWrites /\ WriteString(str)
    \/ \E W \in Widths : \E value \in Vectors(W, endian) :
           dec = "none" /\ Len(log) < MaxWrites /\ WriteSequence(W, value)
    \/ Construct
    \/ \E W \in Widths : Mirrors("fixed", W) /\ ReadFixed(W)
    \/ Mirrors("string", 0) /\ ReadString
    \/ \E W \in Widths : Mirrors("seq", W) /\ ReadSequence(W)

SpecRT == InitBase /\ [][NextRT]_vars

\* ownership: the serializer goes on being written (a 1- or 2-byte value or
\* a string, when empty), cleared and stored into after a deserializer was
\* built from its data; str() is called once, at any point
NextOwn ==
    \/ \E W \in {1, 2} : \E v \in FixedVals(W, endian) :
           data = <<>> /\ WriteFixed(v)
    \/ \E str \in Strings : data = <<>> /\ WriteString(str)
    \/ data # <<>> /\ Clear
    \/ \E i \in 1..Min(1, Len(data)) : GetDataStore(i, 7)
    \/ Construct
    \/ \E W \in Widths : ReadFixed(W)
    \/ ReadString
    \/ \E W \in Widths : ReadSequence(W)
    \/ ~hexDone /\ Str

SpecOwn == InitBase /\ [][NextOwn]_vars

(***************************************************************************)
(* Claims about the deserializer, checked under SpecDec.                   *)
(***************************************************************************)
\* the bytes of the buffer from offset p, n of them
At(p, n) == SubSeq(Buf, p + 1, p + n)

\* the length the four bytes at the last call's starting position declare
Declared == ValueOf(At(last.pos0, 4), endian)

\* the last call was d >> x with x a std::string or a std::vector<uint8_t>
LastIsVariable == last.op = "string" \/ (last.op = "seq" /\ last.w = 1)

\* C3 (as stated): when read_string reads its 4-byte length prefix but
\* cursor + length exceeds the buffer length, it fails with BufferOverflow and
\* the cursor is unchanged from its value before the read_string call.
C3_CursorUnchangedOnPayloadFailure ==
    (/\ last.op = "string"
     /\ last.pos0 + 4 <= Len(Buf)
     /\ last.pos0 + 4 + Declared > Len(Buf))
    => (last.status = "overflow" /\ pos = last.pos0)

\* C4: read_fixed of width W fails with BufferOverflow exactly when
\* cursor + W > buffer length, and then leaves cursor and target unchanged;
\* otherwise the target is the W bytes at the cursor and the cursor advances by W.
C4_ReadFixed ==
    last.op = "fixed" =>
        /\ (last.status = "overflow") <=> (last.pos0 + last.w > Len(Buf))
        /\ last.status = "overflow" => (pos = last.pos0 /\ tgt = last.tgt0)
        /\ last.status # "overflow" =>
               /\ last.status = "ok"
               /\ tgt = At(last.pos0, last.w)
               /\ pos = last.pos0 + last.w

\* C4 witness: after a successful read, a read of a value that ends one byte
\* past the end of the buffer has thrown
C4_Witness ==
    /\ last.op = "fixed"
    /\ last.status = "overflow"
    /\ last.pos0 > 0
    /\ last.pos0 + last.w = Len(Buf) + 1
    /\ last.w > 1

\* C5: after any sequence of reads, successful or failed, 0 <= cursor <=
\* buffer length, and the cursor is not below its value before the last call.
C5_CursorInvariant ==
    /\ 0 <= get_pos(pos)
    /\ get_pos(pos) <= Len(Buf)
    /\ last.pos0 <= get_pos(pos)

\* C5 witness: a read has thrown, and a later read of a byte vector has moved
\* the cursor to the end of the buffer
C5_Witness ==
    /\ failed
    /\ last.op = "seq"
    /\ last.status = "ok"
    /\ last.pos0 > 0
    /\ pos = Len(Buf)
    /\ pos > last.pos0

\* C7: when at least 4 bytes remain at the cursor and the declared length
\* exceeds the bytes remaining after the prefix, reading a string or a byte
\* vector throws BufferOverflow from the payload check (not from the read of
\* the prefix) and leaves the output parameter as it was before the call.
C7_TruncationDetected ==
    (/\ LastIsVariable
     /\ last.pos0 + 4 <= Len(Buf)
     /\ Declared > Len(Buf) - (last.pos0 + 4))
    => (/\ last.status = "overflow"
        /\ last.fail = "payload"
        /\ tgt = last.tgt0)

\* C7 witness: a string read whose prefix declares 2 characters with fewer left
C7_Witness ==
    /\ last.op = "string"
    /\ last.pos0 + 4 <= Len(Buf)
    /\ Declared = 2
    /\ Len(Buf) - (last.pos0 + 4) < 2
    /\ last.status = "overflow"

\* C10: a BufferOverflow leaves the deserializer usable: it is still live
\* over the same bytes, and a later read_fixed whose width fits between the
\* cursor and the end succeeds, returns the bytes at the cursor and advances
\* the cursor by the width.
C10_UsableAfterOverflow ==
    /\ last.status = "overflow" => (dec = "live" /\ Buf = source)
    /\ (/\ last.op = "fixed"
        /\ last.failedBefore
        /\ last.pos0 + last.w <= Len(Buf))
       => (/\ last.status = "ok"
           /\ tgt = At(last.pos0, last.w)
           /\ pos = last.pos0 + last.w)

\* C10 witness: a read has thrown, and a fixed-width read after it succeeded
C10_Witness ==
    /\ last.op = "fixed"
    /\ last.failedBefore
    /\ last.status = "ok"
    /\ last.w = 4
    /\ pos = last.pos0 + 4

(***************************************************************************)
(* Claims about bytes_to_hex, checked under SpecHex.                       *)
(***************************************************************************)
\* the string `out` is the rendering of the bytes `in`: two characters per
\* byte, the digit of the high nibble and then the digit of the low nibble
IsHexOf(out, in) ==
    /\ Len(out) = 2 * Len(in)
    /\ \A i \in 1..Len(in) :
           /\ out[2 * i - 1] = HexDigit[(in[i] \div 16) + 1]
           /\ out[2 * i] = HexDigit[(in[i] % 16) + 1]

\* C9: the hex renderer returns, for n bytes, 2n characters with no separator
\* and no prefix; characters 2i and 2i+1 are the lowercase digits of the high
\* and the low nibble of byte i; [0x00, 0x2A, 0xFF] gives "002aff", 0x05 "05".
C9_HexRendering ==
    hexDone =>
        /\ IsHexOf(hexOut, hexIn)
        /\ hexIn = <<0, 42, 255>> => hexOut = <<"0", "0", "2", "a", "f", "f">>
        /\ hexIn = <<5>> => hexOut = <<"0", "5">>

\* C9 witness: the bytes 00 2A FF have been rendered
C9_Witness == hexDone /\ hexIn = <<0, 42, 255>>

(***************************************************************************)
(* Claims about the serializer, checked under SpecEnc.                     *)
(***************************************************************************)
\* the bytes of data from offset p, n of them
DataAt(p, n) == SubSeq(data, p + 1, p + n)

\* C6: write_string of a string of length L leaves the bytes already in the
\* buffer unchanged and grows it by exactly 4 + L bytes: a 4-byte prefix
\* holding L, then the L characters; write_sequence of N elements of width W
\* grows it by exactly 4 + N*W bytes: a 4-byte prefix holding N, then the
\* elements in order.
C6_LengthAccounting ==
    LET old == Len(lastW.before)
        n   == Len(lastW.arg)
    IN  /\ lastW.op = "string" =>
               /\ Len(data) = old + 4 + n
               /\ DataAt(0, old) = lastW.before
               /\ ValueOf(DataAt(old, 4), endian) = n
               /\ DataAt(old + 4, n) = lastW.arg
        /\ lastW.op = "seq" =>
               /\ Len(data) = old + 4 + n * lastW.w
               /\ DataAt(0, old) = lastW.before
               /\ ValueOf(DataAt(old, 4), endian) = n
               /\ \A i \in 1..n :
                      DataAt(old + 4 + (i - 1) * lastW.w, lastW.w) = lastW.arg[i]

\* C6 witness: a vector of two 4-byte elements has been appended after a
\* non-empty string
C6_Witness ==
    /\ lastW.op = "seq"
    /\ lastW.w = 4
    /\ Len(lastW.arg) = 2
    /\ Len(log) = 2
    /\ log[1].kind = "string"
    /\ log[1].val # <<>>

(***************************************************************************)
(* Claims about ownership of the deserializer's buffer, under SpecOwn.     *)
(***************************************************************************)
\* C8: the deserializer's buffer is a copy of the source bytes taken at
\* construction: after any reads, successful or failed, and any later write,
\* clear or store through get_data on the serializer it was built from, the
\* buffer still equals the source bytes, and str() renders the whole buffer
\* wherever the cursor stands.
C8_BufferImmutable ==
    dec # "none" =>
        /\ Buf = source
        /\ hexDone => IsHexOf(hexOut, source)

\* C8 witness: reads have succeeded and thrown, str() was called with the
\* cursor inside the buffer, and the serializer's data was changed afterwards
C8_Witness ==
    /\ hexDone
    /\ hexPos > 0
    /\ hexPos < Len(Buf)
    /\ failed
    /\ source # <<>>
    /\ data # source
    /\ lastW.op = "store"

(***************************************************************************)
(* Claims about the matched pair, checked under SpecRT.                    *)
(***************************************************************************)
\* the values written were fixed-width values and strings only
OnlyScalars(l) == \A i \in 1..Len(l) : l[i].kind \in {"fixed", "string"}

\* C1 (as stated): for any list of fixed-width values and strings (the
\* empty string included), written to a fresh serializer and read back in the
\* same order with the same types from a deserializer built from its data,
\* every read yields the value written, and any further read throws
\* BufferOverflow.
C1_MatchedRoundTrip ==
    (dec # "none" /\ aligned /\ rd >= 1 /\ OnlyScalars(srcLog)) =>
        IF rd <= Len(srcLog)
        THEN last.status = "ok" /\ tgt = srcLog[rd].val
        ELSE last.status = "overflow"

\* C2 (as stated): for any vector of fixed-width elements of width 1, 2, 4
\* or 8, the empty vector included, write_sequence followed by read_sequence
\* on a deserializer built from the serializer's data yields an equal vector.
C2_SequenceRoundTrip ==
    (/\ dec # "none"
     /\ aligned
     /\ rd \in 1..Len(srcLog)
     /\ srcLog[rd].kind = "seq")
    => (last.status = "ok" /\ tgt = srcLog[rd].val)

\* C1, the part the code keeps: in every run in which no read was stopped
\* by a checked operator[], the values read are the values written and every
\* further read throws BufferOverflow.
C1_UnlessStopped ==
    last.status # "abort" => C1_MatchedRoundTrip

\* C1, where the code fails: only a read of an empty string whose length
\* prefix ends the buffer is ever stopped
C1_StoppedOnlyOnTrailingEmpty ==
    (OnlyScalars(srcLog) /\ last.status = "abort") =>
        /\ last.op = "string"
        /\ srcLog[rd].val = <<>>
        /\ last.pos0 + 4 = Len(Buf)

\* C2, the part the code keeps: a non-empty vector of 1-byte elements,
\* written after fixed-width values and strings only, is read back equal
C2_NonEmptyByteVectors ==
    (/\ dec # "none"
     /\ aligned
     /\ rd \in 1..Len(srcLog)
     /\ \A j \in 1..(rd - 1) : srcLog[j].kind # "seq"
     /\ srcLog[rd].kind = "seq"
     /\ srcLog[rd].w = 1
     /\ srcLog[rd].val # <<>>)
    => (last.status = "ok" /\ tgt = srcLog[rd].val)

\* C2, where the code fails: reading a vector of wider elements throws,
\* with the cursor where it was, whenever fewer than sizeof(std::vector<E>)
\* bytes remain, whatever was written
C2_WideVectorsThrowOnShortBuffers ==
    (/\ last.op = "seq"
     /\ last.w > 1
     /\ last.pos0 + SizeofVector > Len(Buf))
    => (last.status = "overflow" /\ pos = last.pos0)

=============================================================================
